---- MODULE Spec2Model ----
(***************************************************************************)
(* State-machine model of UnifiedEnrichmentView                            *)
(* (app/fire-enrich/unified-enrichment-view.tsx): the two-step wizard that *)
(* picks the email column and the enrichment fields of a CSV job.          *)
(*                                                                         *)
(* Every React state cell is a variable; every event handler, effect and   *)
(* promise continuation is one action.  A handler reads the state of the   *)
(* render it was created in; for the synchronous handlers that is the      *)
(* current state, for the continuation of handleGenerateFields it is the   *)
(* state at the click (kept in the request record).                        *)
(***************************************************************************)
EXTENDS Integers, Sequences, FiniteSets, TLC

VARIABLES
  mounted,                 \* the mount effect has run
  step,                    \* useState<1 | 2>(1)
  emailColumn,             \* useState<string>("")
  selectedFields,          \* useState<EnrichmentField[]>
  showManualAdd,
  showNaturalLanguage,
  naturalLanguageInput,    \* a string, as a sequence of characters
  suggestedFields,
  isGenerating,
  showEmailDropdown,
  showEmailDropdownStep1,
  customField,             \* the manual-entry form
  requests,                \* generate-fields fetches awaiting their response
  toasts,                  \* toast.error messages emitted by the last step
  calls,                   \* onStartEnrichment invocations made by the last step
  lastOp                   \* the handler that ran last, with its input

vars == <<mounted, step, emailColumn, selectedFields, showManualAdd,
          showNaturalLanguage, naturalLanguageInput, suggestedFields,
          isGenerating, showEmailDropdown, showEmailDropdownStep1,
          customField, requests, toasts, calls, lastOp>>

-----------------------------------------------------------------------------
(* Sequence helpers (Array.prototype.map / filter / find / slice).         *)

Range(s) == {s[i] : i \in 1..Len(s)}

Names(fields) == [i \in 1..Len(fields) |-> fields[i].name]

HasName(fields, n) == \E i \in 1..Len(fields) : fields[i].name = n

\* fields.filter((f) => f.name !== n)
WithoutName(fields, n) == SelectSeq(fields, LAMBDA f : f.name # n)

\* fields.filter((_, i) => i !== idx)
WithoutIndex(fields, idx) ==
  [i \in 1..(Len(fields) - 1) |-> IF i < idx THEN fields[i] ELSE fields[i + 1]]

-----------------------------------------------------------------------------
(* Program constants.                                                      *)

PRESET_FIELDS ==
  << [name |-> "companyName", displayName |-> "Company Name",
      description |-> "The name of the company",
      type |-> "string", required |-> FALSE],
     [name |-> "companyDescription", displayName |-> "Company Description",
      description |-> "A brief description of what the company does",
      type |-> "string", required |-> FALSE],
     [name |-> "industry", displayName |-> "Industry",
      description |-> "The primary industry the company operates in",
      type |-> "string", required |-> FALSE],
     [name |-> "employeeCount", displayName |-> "Employee Count",
      description |-> "The number of employees at the company",
      type |-> "number", required |-> FALSE],
     [name |-> "yearFounded", displayName |-> "Year Founded",
      description |-> "The year the company was founded",
      type |-> "number", required |-> FALSE],
     [name |-> "headquarters", displayName |-> "Headquarters",
      description |-> "The location of the company headquarters",
      type |-> "string", required |-> FALSE],
     [name |-> "fundingRaised", displayName |-> "Funding Raised",
      description |-> "Total funding raised by the company",
      type |-> "string", required |-> FALSE],
     [name |-> "fundingStage", displayName |-> "Funding Stage",
      description |-> "The current funding stage",
      type |-> "string", required |-> FALSE] >>

\* PRESET_FIELDS.find((f) => f.name === n)!
PresetNamed(n) ==
  PRESET_FIELDS[CHOOSE i \in 1..Len(PRESET_FIELDS) : PRESET_FIELDS[i].name = n]

\* if (selectedFields.length >= 10)
MaxFields == 10

\* detection.confidence > 50
ConfidenceThreshold == 50

ToastMaxFields == "Maximum 10 fields allowed"
ToastGenerateFailed == "Failed to generate fields. Please try again."
ToastFillAll == "Please fill in all fields"

-----------------------------------------------------------------------------
(* JavaScript strings and truthiness.                                      *)

\* !s  for a string s: only the empty string is falsy
Truthy(s) == s # ""

\* String.prototype.trim on a string held as a sequence of characters
RECURSIVE TrimStart(_)
TrimStart(s) ==
  IF s # <<>> /\ Head(s) = " " THEN TrimStart(Tail(s)) ELSE s

RECURSIVE TrimEnd(_)
TrimEnd(s) ==
  IF s # <<>> /\ s[Len(s)] = " " THEN TrimEnd(SubSeq(s, 1, Len(s) - 1)) ELSE s

Trim(s) == TrimEnd(TrimStart(s))

-----------------------------------------------------------------------------
(* lib/utils/field-utils generateVariableName(displayName, existingNames): *)
(* the helper that turns a display name into a machine identifier which    *)
(* does not collide with existingNames.  A pure function of its two        *)
(* arguments: the camel-cased display name, followed by the first counter  *)
(* that makes it differ from every existing name.                          *)

CamelCase(displayName) ==
  CASE displayName = "Revenue"  -> "revenue"
    [] displayName = "Industry" -> "industry"
    [] displayName = "CEO Name" -> "ceoName"
    [] OTHER                    -> "field"

RECURSIVE FirstFree(_, _, _)
FirstFree(base, counter, existingNames) ==
  IF (base \o ToString(counter)) \in Range(existingNames)
    THEN FirstFree(base, counter + 1, existingNames)
    ELSE base \o ToString(counter)

generateVariableName(displayName, existingNames) ==
  IF CamelCase(displayName) \in Range(existingNames)
    THEN FirstFree(CamelCase(displayName), 1, existingNames)
    ELSE CamelCase(displayName)

-----------------------------------------------------------------------------
(* Props and the inputs the environment can supply.                        *)

\* props.columns
Columns == <<"name", "email">>

\* what detectEmailColumn(rows, columns) can return: a column name (or
\* none, "") with a confidence
DetectionOutputs ==
  [columnName : {"", "email"}, confidence : {50, 51}]

\* longest field list of a generate-fields payload
MaxResponseFields == 2

\* an HTTP response of POST /api/generate-fields; a member missing from the
\* JSON payload is hasData / hasFields = FALSE
SuccessResponse(fields) ==
  [ok |-> TRUE, success |-> TRUE, hasData |-> TRUE, hasFields |-> TRUE,
   fields |-> fields]

\* the responses the code treats as failures: a non-OK status, success: false,
\* no data, no data.fields
FailureResponses ==
  {[ok |-> FALSE, success |-> FALSE, hasData |-> FALSE, hasFields |-> FALSE,
    fields |-> <<>>],
   [ok |-> TRUE, success |-> FALSE, hasData |-> TRUE, hasFields |-> TRUE,
    fields |-> <<>>],
   [ok |-> TRUE, success |-> TRUE, hasData |-> FALSE, hasFields |-> FALSE,
    fields |-> <<>>],
   [ok |-> TRUE, success |-> TRUE, hasData |-> TRUE, hasFields |-> FALSE,
    fields |-> <<>>]}

\* most generate-fields requests in flight the model follows
MaxRequests == 2

-----------------------------------------------------------------------------
(* Initial state: the useState initialisers.                               *)

Init ==
  /\ mounted = FALSE
  /\ step = 1
  /\ emailColumn = ""
  /\ selectedFields = << PresetNamed("companyName"),
                         PresetNamed("companyDescription"),
                         PresetNamed("industry") >>
  /\ showManualAdd = FALSE
  /\ showNaturalLanguage = FALSE
  /\ naturalLanguageInput = <<>>
  /\ suggestedFields = <<>>
  /\ isGenerating = FALSE
  /\ showEmailDropdown = FALSE
  /\ showEmailDropdownStep1 = FALSE
  /\ customField = [name |-> "", description |-> "", type |-> "string"]
  /\ requests = <<>>
  /\ toasts = <<>>
  /\ calls = <<>>
  /\ lastOp = [op |-> "construct", arg |-> ""]

\* a step that emits nothing
Quiet == toasts' = <<>> /\ calls' = <<>>

-----------------------------------------------------------------------------
(* The shared add / remove operations.  They read selectedFields of the    *)
(* current render and return the list handed to setSelectedFields and the  *)
(* toasts emitted.                                                         *)

\* handleAddField with the cap test off by one
AddFieldResultOffByOne(fields, field) ==
  IF Len(fields) > MaxFields
    THEN fields
    ELSE IF ~HasName(fields, field.name)
           THEN Append(fields, field)
           ELSE fields

\* handleAddField without the duplicate test
AddFieldResultNoDuplicateTest(fields, field) ==
  IF Len(fields) >= MaxFields THEN fields ELSE Append(fields, field)

\* handleAddField: the next selectedFields
AddFieldResult(fields, field) ==
  IF Len(fields) >= MaxFields
    THEN fields
    ELSE IF ~HasName(fields, field.name)
           THEN Append(fields, field)
           ELSE fields

\* handleAddField: the toasts it emits
AddFieldToasts(fields, field) ==
  IF Len(fields) >= MaxFields THEN <<ToastMaxFields>> ELSE <<>>

\* handleRemoveField
\* the filter keeping the named field instead of dropping it
RemoveFieldResultInverted(fields, fieldName) ==
  SelectSeq(fields, LAMBDA f : f.name = fieldName)

RemoveFieldResult(fields, fieldName) == WithoutName(fields, fieldName)

-----------------------------------------------------------------------------
(* Effects.                                                                *)

\* the effect with the confidence test admitting 50
DetectEmailColumnAtLeast(detection) ==
  /\ mounted' = TRUE
  /\ emailColumn' =
       IF Truthy(detection.columnName)
          /\ detection.confidence >= ConfidenceThreshold
         THEN detection.columnName
         ELSE emailColumn
  /\ Quiet
  /\ lastOp' = [op |-> "detect", arg |-> detection]
  /\ UNCHANGED <<step, selectedFields, showManualAdd, showNaturalLanguage,
                 naturalLanguageInput, suggestedFields, isGenerating,
                 showEmailDropdown, showEmailDropdownStep1, customField,
                 requests>>

\* useEffect(..., [rows, columns]): runs after the first render and again
\* whenever the parent passes new rows or columns
DetectEmailColumn(detection) ==
  /\ mounted' = TRUE
  /\ emailColumn' =
       IF Truthy(detection.columnName)
          /\ detection.confidence > ConfidenceThreshold
         THEN detection.columnName
         ELSE emailColumn
  /\ Quiet
  /\ lastOp' = [op |-> "detect", arg |-> detection]
  /\ UNCHANGED <<step, selectedFields, showManualAdd, showNaturalLanguage,
                 naturalLanguageInput, suggestedFields, isGenerating,
                 showEmailDropdown, showEmailDropdownStep1, customField,
                 requests>>

-----------------------------------------------------------------------------
(* Step 1 controls (rendered when step === 1).                             *)

\* the "Change" button of step 1
ClickChangeStep1 ==
  /\ mounted /\ step = 1
  /\ Truthy(emailColumn) /\ ~showEmailDropdown
  /\ showEmailDropdown' = TRUE
  /\ Quiet
  /\ lastOp' = [op |-> "changeStep1", arg |-> ""]
  /\ UNCHANGED <<mounted, step, emailColumn, selectedFields, showManualAdd,
                 showNaturalLanguage, naturalLanguageInput, suggestedFields,
                 isGenerating, showEmailDropdownStep1, customField, requests>>

\* onValueChange of the step 1 selects: the one shown with a column already
\* chosen, and the one shown with none
SelectEmailStep1(value) ==
  /\ mounted /\ step = 1
  /\ IF Truthy(emailColumn)
       THEN /\ showEmailDropdown
            /\ emailColumn' = value
            /\ showEmailDropdownStep1' = FALSE
       ELSE /\ emailColumn' = value
            /\ UNCHANGED showEmailDropdownStep1
  /\ Quiet
  /\ lastOp' = [op |-> "selectStep1", arg |-> value]
  /\ UNCHANGED <<mounted, step, selectedFields, showManualAdd,
                 showNaturalLanguage, naturalLanguageInput, suggestedFields,
                 isGenerating, showEmailDropdown, customField, requests>>

\* the "Next" button without its disabled test
ClickNextNeverDisabled ==
  /\ mounted /\ step = 1
  /\ step' = 2
  /\ Quiet
  /\ lastOp' = [op |-> "next", arg |-> ""]
  /\ UNCHANGED <<mounted, emailColumn, selectedFields, showManualAdd,
                 showNaturalLanguage, naturalLanguageInput, suggestedFields,
                 isGenerating, showEmailDropdown, showEmailDropdownStep1,
                 customField, requests>>

\* the "Next" button: disabled={!emailColumn}
ClickNext ==
  /\ mounted /\ step = 1
  /\ Truthy(emailColumn)
  /\ step' = 2
  /\ Quiet
  /\ lastOp' = [op |-> "next", arg |-> ""]
  /\ UNCHANGED <<mounted, emailColumn, selectedFields, showManualAdd,
                 showNaturalLanguage, naturalLanguageInput, suggestedFields,
                 isGenerating, showEmailDropdown, showEmailDropdownStep1,
                 customField, requests>>

-----------------------------------------------------------------------------
(* Step 2 controls (rendered when step >= 2 / step === 2).                 *)

\* the "Change" button of the step 2 email card
ClickChangeStep2 ==
  /\ mounted /\ step = 2
  /\ ~showEmailDropdown
  /\ showEmailDropdown' = TRUE
  /\ Quiet
  /\ lastOp' = [op |-> "changeStep2", arg |-> ""]
  /\ UNCHANGED <<mounted, step, emailColumn, selectedFields, showManualAdd,
                 showNaturalLanguage, naturalLanguageInput, suggestedFields,
                 isGenerating, showEmailDropdownStep1, customField, requests>>

\* onValueChange of the step 2 select
SelectEmailStep2(value) ==
  /\ mounted /\ step = 2
  /\ showEmailDropdown
  /\ emailColumn' = value
  /\ showEmailDropdown' = FALSE
  /\ Quiet
  /\ lastOp' = [op |-> "selectStep2", arg |-> value]
  /\ UNCHANGED <<mounted, step, selectedFields, showManualAdd,
                 showNaturalLanguage, naturalLanguageInput, suggestedFields,
                 isGenerating, showEmailDropdownStep1, customField, requests>>

\* the preset buttons also disabled while a request is outstanding
PresetDisabledWhileGenerating(field) ==
  \/ isGenerating
  \/ Len(selectedFields) >= MaxFields /\ ~HasName(selectedFields, field.name)

\* disabled={selectedFields.length >= 10 && !isSelected}
PresetDisabled(field) ==
  Len(selectedFields) >= MaxFields /\ ~HasName(selectedFields, field.name)

\* a preset button: isSelected ? handleRemoveField(name) : handleAddField(field)
ClickPreset(p) ==
  /\ mounted /\ step = 2
  /\ ~PresetDisabled(PRESET_FIELDS[p])
  /\ IF HasName(selectedFields, PRESET_FIELDS[p].name)
       THEN /\ selectedFields' =
                 RemoveFieldResult(selectedFields, PRESET_FIELDS[p].name)
            /\ toasts' = <<>>
       ELSE /\ selectedFields' = AddFieldResult(selectedFields, PRESET_FIELDS[p])
            /\ toasts' = AddFieldToasts(selectedFields, PRESET_FIELDS[p])
  /\ calls' = <<>>
  /\ lastOp' = [op |-> "preset", arg |-> PRESET_FIELDS[p].name]
  /\ UNCHANGED <<mounted, step, emailColumn, showManualAdd,
                 showNaturalLanguage, naturalLanguageInput, suggestedFields,
                 isGenerating, showEmailDropdown, showEmailDropdownStep1,
                 customField, requests>>

\* the header of the natural-language card
ToggleNaturalLanguage ==
  /\ mounted /\ step = 2
  /\ showNaturalLanguage' = ~showNaturalLanguage
  /\ Quiet
  /\ lastOp' = [op |-> "toggleNaturalLanguage", arg |-> ""]
  /\ UNCHANGED <<mounted, step, emailColumn, selectedFields, showManualAdd,
                 naturalLanguageInput, suggestedFields, isGenerating,
                 showEmailDropdown, showEmailDropdownStep1, customField,
                 requests>>

\* onChange of the prompt textarea
TypePrompt(text) ==
  /\ mounted /\ step = 2
  /\ showNaturalLanguage
  /\ text # naturalLanguageInput
  /\ naturalLanguageInput' = text
  /\ Quiet
  /\ lastOp' = [op |-> "typePrompt", arg |-> ""]
  /\ UNCHANGED <<mounted, step, emailColumn, selectedFields, showManualAdd,
                 showNaturalLanguage, suggestedFields, isGenerating,
                 showEmailDropdown, showEmailDropdownStep1, customField,
                 requests>>

\* the disabled test without isGenerating
GenerateDisabledIgnoringFlag == Trim(naturalLanguageInput) = <<>>

\* disabled={!naturalLanguageInput.trim() || isGenerating}
GenerateDisabled == Trim(naturalLanguageInput) = <<>> \/ isGenerating

\* handleGenerateFields up to its await: the fetch is issued and the
\* continuation keeps the selectedFields of this render
ClickGenerate ==
  /\ mounted /\ step = 2
  /\ showNaturalLanguage
  /\ ~GenerateDisabled
  /\ Len(requests) < MaxRequests
  /\ Trim(naturalLanguageInput) # <<>>
  /\ isGenerating' = TRUE
  /\ requests' = Append(requests, [prompt |-> naturalLanguageInput,
                                   selectedFields |-> selectedFields])
  /\ Quiet
  /\ lastOp' = [op |-> "generate", arg |-> ""]
  /\ UNCHANGED <<mounted, step, emailColumn, selectedFields, showManualAdd,
                 showNaturalLanguage, naturalLanguageInput, suggestedFields,
                 showEmailDropdown, showEmailDropdownStep1, customField>>

\* the type mapping without its "array" arm
ConvertTypeTextOnly(type) ==
  IF type = "text" THEN "string" ELSE type

\* field.type === "text" ? "string" : field.type === "array" ? "string" : field.type
ConvertType(type) ==
  IF type = "text" THEN "string" ELSE IF type = "array" THEN "string" ELSE type

\* the mapping of one descriptor of the payload
ConvertField(field, closureFields) ==
  [name |-> generateVariableName(field.displayName, Names(closureFields)),
   displayName |-> field.displayName,
   description |-> field.description,
   type |-> ConvertType(field.type),
   required |-> FALSE]

\* result.data.fields.map(...)
ConvertFields(fields, closureFields) ==
  [i \in 1..Len(fields) |-> ConvertField(fields[i], closureFields)]

\* the payload test without result.data.fields
ResponseAcceptedWithoutFields(response) ==
  response.ok /\ response.success /\ response.hasData

\* if (!response.ok) throw ...; if (result.success && result.data && result.data.fields)
ResponseAccepted(response) ==
  response.ok /\ response.success /\ response.hasData /\ response.hasFields

\* the continuation appending the mapped fields to the earlier suggestions
ResolveGenerateAppending(i, response) ==
  /\ i \in 1..Len(requests)
  /\ IF ResponseAccepted(response)
       THEN /\ suggestedFields' =
                 suggestedFields
                   \o ConvertFields(response.fields, requests[i].selectedFields)
            /\ showNaturalLanguage' = FALSE
            /\ naturalLanguageInput' = <<>>
            /\ toasts' = <<>>
       ELSE /\ toasts' = <<ToastGenerateFailed>>
            /\ UNCHANGED <<suggestedFields, showNaturalLanguage,
                           naturalLanguageInput>>
  /\ isGenerating' = FALSE
  /\ requests' = WithoutIndex(requests, i)
  /\ calls' = <<>>
  /\ lastOp' = [op |-> "resolve", arg |-> response]
  /\ UNCHANGED <<mounted, step, emailColumn, selectedFields, showManualAdd,
                 showEmailDropdown, showEmailDropdownStep1, customField>>

\* handleGenerateFields from its await on: the response of request i arrives
ResolveGenerate(i, response) ==
  /\ i \in 1..Len(requests)
  /\ IF ResponseAccepted(response)
       THEN /\ suggestedFields' =
                 ConvertFields(response.fields, requests[i].selectedFields)
            /\ showNaturalLanguage' = FALSE
            /\ naturalLanguageInput' = <<>>
            /\ toasts' = <<>>
       ELSE /\ toasts' = <<ToastGenerateFailed>>
            /\ UNCHANGED <<suggestedFields, showNaturalLanguage,
                           naturalLanguageInput>>
  /\ isGenerating' = FALSE
  /\ requests' = WithoutIndex(requests, i)
  /\ calls' = <<>>
  /\ lastOp' = [op |-> "resolve", arg |-> response]
  /\ UNCHANGED <<mounted, step, emailColumn, selectedFields, showManualAdd,
                 showEmailDropdown, showEmailDropdownStep1, customField>>

\* the header of the manual-add card
ToggleManualAdd ==
  /\ mounted /\ step = 2
  /\ showManualAdd' = ~showManualAdd
  /\ Quiet
  /\ lastOp' = [op |-> "toggleManualAdd", arg |-> ""]
  /\ UNCHANGED <<mounted, step, emailColumn, selectedFields,
                 showNaturalLanguage, naturalLanguageInput, suggestedFields,
                 isGenerating, showEmailDropdown, showEmailDropdownStep1,
                 customField, requests>>

\* onChange / onValueChange of the three inputs of the manual form
EditCustomField(edited) ==
  /\ mounted /\ step = 2
  /\ showManualAdd
  /\ edited # customField
  /\ \/ edited = [customField EXCEPT !.name = edited.name]
     \/ edited = [customField EXCEPT !.description = edited.description]
     \/ edited = [customField EXCEPT !.type = edited.type]
  /\ customField' = edited
  /\ Quiet
  /\ lastOp' = [op |-> "editCustomField", arg |-> ""]
  /\ UNCHANGED <<mounted, step, emailColumn, selectedFields, showManualAdd,
                 showNaturalLanguage, naturalLanguageInput, suggestedFields,
                 isGenerating, showEmailDropdown, showEmailDropdownStep1,
                 requests>>

\* the disabled test looking at the name only
AddCustomDisabledNameOnly == ~Truthy(customField.name)

\* disabled={!customField.name || !customField.description}
AddCustomDisabled ==
  ~Truthy(customField.name) \/ ~Truthy(customField.description)

\* the field built with an identifier that is not compared with the selection
NewCustomFieldIgnoringSelection ==
  [name |-> generateVariableName(customField.name, <<>>),
   displayName |-> customField.name,
   description |-> customField.description,
   type |-> customField.type,
   required |-> FALSE]

\* the field handleAddCustomField builds
NewCustomField ==
  [name |-> generateVariableName(customField.name, Names(selectedFields)),
   displayName |-> customField.name,
   description |-> customField.description,
   type |-> customField.type,
   required |-> FALSE]

\* handleAddCustomField, behind the "Add Field" button
ClickAddCustomField ==
  /\ mounted /\ step = 2
  /\ showManualAdd
  /\ ~AddCustomDisabled
  /\ IF ~Truthy(customField.name) \/ ~Truthy(customField.description)
       THEN /\ toasts' = <<ToastFillAll>>
            /\ UNCHANGED <<selectedFields, customField, showManualAdd>>
       ELSE /\ selectedFields' = AddFieldResult(selectedFields, NewCustomField)
            /\ toasts' = AddFieldToasts(selectedFields, NewCustomField)
            /\ customField' = [name |-> "", description |-> "", type |-> "string"]
            /\ showManualAdd' = FALSE
  /\ calls' = <<>>
  /\ lastOp' = [op |-> "addCustomField", arg |-> ""]
  /\ UNCHANGED <<mounted, step, emailColumn, showNaturalLanguage,
                 naturalLanguageInput, suggestedFields, isGenerating,
                 showEmailDropdown, showEmailDropdownStep1, requests>>

\* the "Accept" button of suggestion idx
AcceptSuggestion(idx) ==
  /\ mounted /\ step = 2
  /\ idx \in 1..Len(suggestedFields)
  /\ selectedFields' = AddFieldResult(selectedFields, suggestedFields[idx])
  /\ toasts' = AddFieldToasts(selectedFields, suggestedFields[idx])
  /\ suggestedFields' = WithoutIndex(suggestedFields, idx)
  /\ calls' = <<>>
  /\ lastOp' = [op |-> "accept", arg |-> suggestedFields[idx]]
  /\ UNCHANGED <<mounted, step, emailColumn, showManualAdd,
                 showNaturalLanguage, naturalLanguageInput, isGenerating,
                 showEmailDropdown, showEmailDropdownStep1, customField,
                 requests>>

\* the "Reject" button of suggestion idx
RejectSuggestion(idx) ==
  /\ mounted /\ step = 2
  /\ idx \in 1..Len(suggestedFields)
  /\ suggestedFields' = WithoutIndex(suggestedFields, idx)
  /\ Quiet
  /\ lastOp' = [op |-> "reject", arg |-> suggestedFields[idx]]
  /\ UNCHANGED <<mounted, step, emailColumn, selectedFields, showManualAdd,
                 showNaturalLanguage, naturalLanguageInput, isGenerating,
                 showEmailDropdown, showEmailDropdownStep1, customField,
                 requests>>

\* the "Back" button
ClickBack ==
  /\ mounted /\ step = 2
  /\ step' = 1
  /\ Quiet
  /\ lastOp' = [op |-> "back", arg |-> ""]
  /\ UNCHANGED <<mounted, emailColumn, selectedFields, showManualAdd,
                 showNaturalLanguage, naturalLanguageInput, suggestedFields,
                 isGenerating, showEmailDropdown, showEmailDropdownStep1,
                 customField, requests>>

\* the "Start Enrichment" button never disabled
StartNeverDisabled == FALSE

\* disabled={selectedFields.length === 0}
StartDisabled == Len(selectedFields) = 0

\* the "Start Enrichment" button
ClickStartEnrichment ==
  /\ mounted /\ step = 2
  /\ ~StartDisabled
  /\ calls' = <<[emailColumn |-> emailColumn, fields |-> selectedFields]>>
  /\ toasts' = <<>>
  /\ lastOp' = [op |-> "start", arg |-> ""]
  /\ UNCHANGED <<mounted, step, emailColumn, selectedFields, showManualAdd,
                 showNaturalLanguage, naturalLanguageInput, suggestedFields,
                 isGenerating, showEmailDropdown, showEmailDropdownStep1,
                 customField, requests>>

-----------------------------------------------------------------------------
(* Sessions.  Each specification below runs the same handlers against one  *)
(* kind of user session, given by the inputs it draws from.                *)

\* the selected fields that are not catalog entries
CustomCount ==
  Cardinality({i \in 1..Len(selectedFields) :
                 selectedFields[i] \notin Range(PRESET_FIELDS)})

(* Session "cap": the user fills the selection up to the cap, by toggling  *)
(* catalog entries, submitting the manual form and accepting suggestions.  *)

CapPresets == {3}

CapForms ==
  {[name |-> "Revenue", description |-> "", type |-> "string"],
   [name |-> "Revenue", description |-> "Annual revenue", type |-> "string"]}

CapDescriptor ==
  [displayName |-> "Revenue", description |-> "Annual revenue", type |-> "text"]

CapResponses == {SuccessResponse(<<CapDescriptor>>)}

NextCap ==
  \/ DetectEmailColumn([columnName |-> "email", confidence |-> 51])
  \/ ClickNext
  \/ \E p \in CapPresets : ClickPreset(p)
  \/ ~showNaturalLanguage /\ ToggleNaturalLanguage
  \/ TypePrompt(<<"c", "e", "o">>)
  \/ ClickGenerate
  \/ \E response \in CapResponses : ResolveGenerate(1, response)
  \/ ~showManualAdd /\ ToggleManualAdd
  \/ \E edited \in CapForms : EditCustomField(edited)
  \/ ClickAddCustomField
  \/ \E idx \in 1..MaxResponseFields : AcceptSuggestion(idx)
  \/ \E idx \in 1..MaxResponseFields : RejectSuggestion(idx)
  \/ ClickStartEnrichment

SpecCap == Init /\ [][NextCap]_vars

(* Session "navigation": the user moves between the steps, changes the     *)
(* email column, toggles the default catalog entries and starts the job.   *)

NavPresets == {1, 2, 3}

NextNav ==
  \/ \E detection \in DetectionOutputs : DetectEmailColumn(detection)
  \/ ClickChangeStep1
  \/ \E value \in Range(Columns) : SelectEmailStep1(value)
  \/ ClickNext
  \/ ClickChangeStep2
  \/ \E value \in Range(Columns) : SelectEmailStep2(value)
  \/ \E p \in NavPresets : ClickPreset(p)
  \/ ClickBack
  \/ ClickStartEnrichment

SpecNav == Init /\ [][NextNav]_vars

(* Session "generation": the user asks for suggestions and keeps using the *)
(* view while the request is outstanding; the endpoint answers with any    *)
(* failure or with up to MaxResponseFields descriptors.                    *)

\* most custom fields the user adds in this session
MaxCustomFields == 1

GenPresets == {3}

GenPrompts == {<<>>, <<" ">>, <<"c", "e", "o">>}

GenForms ==
  [name : {"", "Revenue"}, description : {"", "Annual revenue"},
   type : {"string"}]

GenDescriptor ==
  [displayName |-> "Revenue", description |-> "Annual revenue", type |-> "text"]

GenResponses ==
  FailureResponses
  \cup {SuccessResponse([i \in 1..n |-> GenDescriptor]) :
          n \in 0..MaxResponseFields}

Next ==
  \/ DetectEmailColumn([columnName |-> "email", confidence |-> 51])
  \/ ClickNext
  \/ ClickBack
  \/ \E p \in GenPresets : ClickPreset(p)
  \/ ToggleNaturalLanguage
  \/ \E text \in GenPrompts : TypePrompt(text)
  \/ ClickGenerate
  \/ \E i \in 1..MaxRequests, response \in GenResponses :
       ResolveGenerate(i, response)
  \/ ToggleManualAdd
  \/ \E edited \in GenForms : EditCustomField(edited)
  \/ CustomCount < MaxCustomFields /\ ClickAddCustomField
  \/ CustomCount < MaxCustomFields
       /\ \E idx \in 1..MaxResponseFields : AcceptSuggestion(idx)
  \/ \E idx \in 1..MaxResponseFields : RejectSuggestion(idx)
  \/ ClickStartEnrichment

Spec == Init /\ [][Next]_vars

(* Session "payload": the endpoint answers with every kind of descriptor;  *)
(* the user only looks at the suggestions and dismisses them.              *)

TypesDescriptors ==
  [displayName : {"Revenue", "CEO Name"},
   description : {"Annual revenue"},
   type : {"text", "array", "string", "number", "boolean", "date"}]

TypesResponses ==
  {SuccessResponse(fields) :
     fields \in UNION {[1..n -> TypesDescriptors] : n \in 0..MaxResponseFields}}

NextTypes ==
  \/ DetectEmailColumn([columnName |-> "email", confidence |-> 51])
  \/ ClickNext
  \/ ToggleNaturalLanguage
  \/ TypePrompt(<<"c", "e", "o">>)
  \/ ClickGenerate
  \/ \E response \in TypesResponses : ResolveGenerate(1, response)
  \/ \E idx \in 1..MaxResponseFields : RejectSuggestion(idx)

SpecTypes == Init /\ [][NextTypes]_vars

-----------------------------------------------------------------------------
(* Properties.                                                             *)

\* C1: the selected-fields list never has more than 10 members, and an add
\* attempt made while 10 fields are selected (a click on an unselected
\* preset, a manual submission, an Accept) leaves the list unchanged and
\* emits "Maximum 10 fields allowed".
C1_CapNeverExceeded ==
  [][ /\ Len(selectedFields) <= 10
      /\ Len(selectedFields') <= 10
      /\ ( /\ Len(selectedFields) = 10
           /\ \/ lastOp'.op \in {"addCustomField", "accept"}
              \/ /\ lastOp'.op = "preset"
                 /\ ~HasName(selectedFields, lastOp'.arg) )
         => /\ selectedFields' = selectedFields
            /\ toasts' = <<"Maximum 10 fields allowed">> ]_vars

\* C1 witness: a manual submission was made with 10 fields selected
C1_Witness ==
  /\ Len(selectedFields) = 10
  /\ lastOp.op = "addCustomField"
  /\ toasts = <<"Maximum 10 fields allowed">>

\* C2: no two fields of the selected-fields list have the same name.
C2_UniqueNames ==
  \A i, j \in 1..Len(selectedFields) :
    i # j => selectedFields[i].name # selectedFields[j].name

\* C2 witness: a suggestion was accepted whose name was already selected,
\* below the cap, next to two fields that share a display name
C2_Witness ==
  /\ lastOp.op = "accept"
  /\ toasts = <<>>
  /\ HasName(selectedFields, lastOp.arg.name)
  /\ selectedFields[Len(selectedFields)].name # lastOp.arg.name
  /\ \E i, j \in 1..Len(selectedFields) :
       i # j /\ selectedFields[i].displayName = selectedFields[j].displayName

\* C3 (as claimed): after every Accept the accepted field is absent from the
\* suggestions and present in the selected-fields list, which has at most 10
\* members.
C3_AcceptMovesField ==
  [][ lastOp'.op = "accept"
      => /\ lastOp'.arg \notin Range(suggestedFields')
         /\ lastOp'.arg \in Range(selectedFields')
         /\ Len(selectedFields') <= 10 ]_vars

\* C4: onStartEnrichment is invoked only by a click of Start Enrichment, once
\* per click, with the current email column and the current selected-fields
\* list in selection order; the list and the email column passed are never
\* empty.
C4_StartCallsOnce ==
  /\ calls # <<>> => lastOp.op = "start"
  /\ lastOp.op = "start"
       => /\ calls = <<[emailColumn |-> emailColumn, fields |-> selectedFields]>>
          /\ calls[1].fields # <<>>
          /\ calls[1].emailColumn # ""

\* C4 witness: Start Enrichment clicked with email column "email" and two
\* selected fields
C4_Witness ==
  /\ lastOp.op = "start"
  /\ Len(calls) = 1
  /\ calls[1].emailColumn = "email"
  /\ Len(calls[1].fields) = 2

\* C5: the step changes only from 1 to 2 by Next, enabled only with a
\* non-empty email column, and from 2 to 1 by Back, enabled whenever step 2
\* is shown; so step = 2 implies a non-empty email column.
C5_StepByNavigation ==
  /\ [](step = 2 => emailColumn # "" /\ ENABLED ClickBack)
  /\ []((ENABLED ClickNext) => emailColumn # "")
  /\ [][ step' # step
         => \/ step = 1 /\ step' = 2 /\ lastOp'.op = "next" /\ emailColumn # ""
            \/ step = 2 /\ step' = 1 /\ lastOp'.op = "back" ]_vars

\* C5 witness: back on step 1 after a visit of step 2
C5_Witness ==
  /\ lastOp.op = "back"
  /\ step = 1
  /\ emailColumn # ""

\* C6: a detection with a column name and confidence > 50 sets the email
\* column to that name; any other detection leaves the email column
\* unchanged; no detection changes the step (1 on mount).
C6_DetectionPrefills ==
  [][ lastOp'.op = "detect"
      => /\ step' = step
         /\ ~mounted => step' = 1
         /\ IF lastOp'.arg.columnName # "" /\ lastOp'.arg.confidence > 50
              THEN emailColumn' = lastOp'.arg.columnName
              ELSE emailColumn' = emailColumn ]_vars

\* C6 witness: the mount detection pre-filled the column and the wizard is
\* on step 1
C6_Witness ==
  /\ lastOp.op = "detect"
  /\ lastOp.arg.confidence > 50
  /\ emailColumn = lastOp.arg.columnName
  /\ emailColumn # ""
  /\ step = 1

\* a response the claims call failed: non-OK, or a payload lacking success,
\* data or fields
FailedResponse(response) ==
  ~response.ok \/ ~response.success \/ ~response.hasData \/ ~response.hasFields

\* C7: the resolution of a failed generate-fields request emits the error
\* notification, clears isGenerating and changes no other view state; no new
\* request is issued.
C7_FailureKeepsState ==
  [][ lastOp'.op = "resolve" /\ FailedResponse(lastOp'.arg)
      => /\ toasts' = <<"Failed to generate fields. Please try again.">>
         /\ isGenerating' = FALSE
         /\ Len(requests') = Len(requests) - 1
         /\ UNCHANGED <<step, emailColumn, selectedFields, showManualAdd,
                        showNaturalLanguage, naturalLanguageInput,
                        suggestedFields, showEmailDropdown,
                        showEmailDropdownStep1, customField>> ]_vars

\* C7 witness: a payload without data.fields was rejected with the panel
\* open, the prompt typed and an earlier suggestion still listed
C7_Witness ==
  /\ lastOp.op = "resolve"
  /\ lastOp.arg.ok /\ lastOp.arg.success /\ ~lastOp.arg.hasFields
  /\ toasts = <<"Failed to generate fields. Please try again.">>
  /\ showNaturalLanguage
  /\ naturalLanguageInput # <<>>
  /\ suggestedFields # <<>>

\* C8: isGenerating is true exactly while a generate-fields request is
\* outstanding, the Generate Fields control is disabled all that time, and at
\* most one request is outstanding.
C8_OneRequestAtATime ==
  /\ isGenerating <=> Len(requests) > 0
  /\ Len(requests) > 0 => ~ENABLED ClickGenerate
  /\ Len(requests) <= 1

\* C8 witness: the user went Back and Next again with a request outstanding,
\* the panel open and the prompt typed
C8_Witness ==
  /\ Len(requests) = 1
  /\ lastOp.op = "next"
  /\ showNaturalLanguage
  /\ Trim(naturalLanguageInput) # <<>>

\* C9 (as claimed): when the suggestions of a successful response are
\* stored, every suggested name differs from every selected name and from
\* every other suggested name.
C9_SuggestionsFresh ==
  lastOp.op = "resolve" /\ ~FailedResponse(lastOp.arg)
    => /\ \A i \in 1..Len(suggestedFields) :
            ~HasName(selectedFields, suggestedFields[i].name)
       /\ \A i, j \in 1..Len(suggestedFields) :
            i # j => suggestedFields[i].name # suggestedFields[j].name

\* C10: each descriptor of a successful response becomes a suggested field
\* of type "string" when the reported type is "text" or "array" and of the
\* reported type otherwise, with displayName and description copied and
\* required false.
C10_TypeMapping ==
  lastOp.op = "resolve" /\ ~FailedResponse(lastOp.arg)
    => /\ Len(suggestedFields) = Len(lastOp.arg.fields)
       /\ \A i \in 1..Len(suggestedFields) :
            /\ suggestedFields[i].type =
                 IF lastOp.arg.fields[i].type \in {"text", "array"}
                   THEN "string"
                   ELSE lastOp.arg.fields[i].type
            /\ suggestedFields[i].displayName = lastOp.arg.fields[i].displayName
            /\ suggestedFields[i].description = lastOp.arg.fields[i].description
            /\ suggestedFields[i].required = FALSE

\* C10 witness: a payload reporting "array" and "date" was stored as
\* "string" and "date"
C10_Witness ==
  /\ lastOp.op = "resolve"
  /\ Len(lastOp.arg.fields) = 2
  /\ lastOp.arg.fields[1].type = "array"
  /\ lastOp.arg.fields[2].type = "date"
  /\ Len(suggestedFields) = 2
  /\ suggestedFields[1].type = "string"
  /\ suggestedFields[2].type = "date"

MaxManualFields == 2

ManualPresets == {3}

ManualForms ==
  [name : {"Revenue", "Industry"},
   description : {"", "Annual revenue"},
   type : {"string", "array"}]

NextManual ==
  \/ DetectEmailColumn([columnName |-> "email", confidence |-> 51])
  \/ ClickNext
  \/ \E p \in ManualPresets : ClickPreset(p)
  \/ ~showManualAdd /\ ToggleManualAdd
  \/ \E edited \in ManualForms : EditCustomField(edited)
  \/ CustomCount < MaxManualFields /\ ClickAddCustomField

SpecManual == Init /\ [][NextManual]_vars

\* C12: a submission of the manual form with a name and a description,
\* made while fewer than 10 fields are selected, appends exactly one field
\* to the selected-fields list; its identifier is the name of no field
\* selected before, and its displayName, description and type are the ones
\* entered in the form.
C12_SubmitAppendsFreshField ==
  [][ ( /\ lastOp'.op = "addCustomField"
        /\ customField.name # "" /\ customField.description # ""
        /\ Len(selectedFields) < 10 )
      => /\ Len(selectedFields') = Len(selectedFields) + 1
         /\ SubSeq(selectedFields', 1, Len(selectedFields)) = selectedFields
         /\ LET added == selectedFields'[Len(selectedFields')]
            IN  /\ \A i \in 1..Len(selectedFields) :
                     selectedFields[i].name # added.name
                /\ added.displayName = customField.name
                /\ added.description = customField.description
                /\ added.type = customField.type ]_vars

\* C12 witness: the same display name was submitted twice, the second time
\* with the type "array", and the two fields have distinct identifiers
C12_Witness ==
  /\ lastOp.op = "addCustomField"
  /\ Len(selectedFields) = 5
  /\ selectedFields[4].displayName = "Revenue"
  /\ selectedFields[5].displayName = "Revenue"
  /\ selectedFields[4].name # selectedFields[5].name
  /\ selectedFields[5].type = "array"

(* ---------------------------------------------------------------------- *)
(* The rendered skip warning and preview header, as functions of the      *)
(* state.  Cell values are sequences of characters.                       *)
(* ---------------------------------------------------------------------- *)

\* props.rows: one record per CSV row, keyed by the column names
rows ==
  <<[name  |-> <<"A", "n", "n">>,
    email |-> <<"a", "@", "g", "m", "a", "i", "l", ".", "c", "o", "m">>],
   [name  |-> <<"B", "o", "b">>,
    email |-> <<"B", "@", "Y", "a", "h", "o", "o", ".", "C", "O", "M">>],
   [name  |-> <<"C", "y">>,
    email |-> <<"c", "@", "a", "c", "m", "e", ".", "i", "o">>],
   [name  |-> <<"D", "e", "e">>,
    email |-> <<>>],
   [name  |-> <<"E", "d">>,
    email |-> <<"d", "e", "e">>],
   [name  |-> <<"F", "a", "y">>,
    email |-> <<"e", "@", "g", "m", "a", "i", "l", ".", "c", "o", "m", "@", "x", ".", "i", "o">>],
   [name  |-> <<"G", "u", "s">>,
    email |-> <<"f", "@", "x", ".", "i", "o", "@", "g", "m", "a", "i", "l", ".", "c", "o", "m">>],
   [name  |-> <<"H", "a", "l">>,
    email |-> <<"g", "@", "i", "c", "l", "o", "u", "d", ".", "c", "o", "m", " ">>],
   [name  |-> <<"I", "v", "y">>,
    email |-> <<"@", "a", "o", "l", ".", "c", "o", "m">>],
   [name  |-> <<"k", "@", "o", "u", "t", "l", "o", "o", "k", ".", "c", "o", "m">>,
    email |-> <<"h", "@">>]>>

UpperCaseLetters ==
  <<"A", "B", "C", "D", "E", "F", "G", "H", "I", "J", "K", "L", "M",
    "N", "O", "P", "Q", "R", "S", "T", "U", "V", "W", "X", "Y", "Z">>

LowerCaseLetters ==
  <<"a", "b", "c", "d", "e", "f", "g", "h", "i", "j", "k", "l", "m",
    "n", "o", "p", "q", "r", "s", "t", "u", "v", "w", "x", "y", "z">>

\* String.prototype.toLowerCase
toLowerCase(s) ==
  [i \in 1..Len(s) |->
     IF \E k \in 1..26 : UpperCaseLetters[k] = s[i]
     THEN LowerCaseLetters[CHOOSE k \in 1..26 : UpperCaseLetters[k] = s[i]]
     ELSE s[i]]

\* position of the first occurrence of the character c in s, 0 if none
IndexOf(s, c) ==
  IF \E i \in 1..Len(s) : s[i] = c
  THEN CHOOSE i \in 1..Len(s) : s[i] = c /\ \A j \in 1..(i - 1) : s[j] # c
  ELSE 0

\* String.prototype.split(separator): the pieces between the separators
RECURSIVE split(_, _)
split(s, separator) ==
  LET i == IndexOf(s, separator)
  IN  IF i = 0
      THEN <<s>>
      ELSE <<SubSeq(s, 1, i - 1)>> \o split(SubSeq(s, i + 1, Len(s)), separator)

commonDomains ==
  <<<<"g", "m", "a", "i", "l", ".", "c", "o", "m">>,
    <<"y", "a", "h", "o", "o", ".", "c", "o", "m">>,
    <<"h", "o", "t", "m", "a", "i", "l", ".", "c", "o", "m">>,
    <<"o", "u", "t", "l", "o", "o", "k", ".", "c", "o", "m">>,
    <<"a", "o", "l", ".", "c", "o", "m">>,
    <<"i", "c", "l", "o", "u", "d", ".", "c", "o", "m">>>>

\* the filter test that compares the cell as it is, without lower-casing it
IsSkippableCaseSensitive(row, column) ==
  LET email == row[column]
  IN  IF email = <<>>
      THEN FALSE
      ELSE LET parts == split(email, "@")
           IN  /\ Len(parts) >= 2
               /\ parts[2] # <<>>
               /\ parts[2] \in Range(commonDomains)

\* the filter test of skippableEmails: email.split("@")[1] is the second
\* piece, undefined when the cell holds no "@"
IsSkippable(row, column) ==
  LET email == toLowerCase(row[column])
  IN  IF email = <<>>
      THEN FALSE
      ELSE LET parts == split(email, "@")
           IN  /\ Len(parts) >= 2
               /\ parts[2] # <<>>
               /\ parts[2] \in Range(commonDomains)

skippableEmails ==
  IF Truthy(emailColumn)
  THEN SelectSeq(rows, LAMBDA row : IsSkippable(row, emailColumn))
  ELSE <<>>

\* the warning is rendered in the step-1 block, when emailColumn is set and
\* skippableEmails is not empty
SkipWarningShown ==
  /\ step = 1
  /\ Truthy(emailColumn)
  /\ Len(skippableEmails) # 0

\* the number the warning displays
SkipWarningCount == Len(skippableEmails)

\* the rows whose cell in the column, lower-cased, has the text after its
\* first "@" among the common domains
RowsWithTextAfterFirstAt(column) ==
  {i \in 1..Len(rows) :
     LET value == toLowerCase(rows[i][column])
         at == IndexOf(value, "@")
     IN  /\ at > 0
         /\ SubSeq(value, at + 1, Len(value)) \in Range(commonDomains)}

\* the rows whose cell in the column, lower-cased, has the text between its
\* first "@" and its next "@" (or its end) among the common domains
RowsWithTextBetweenAts(column) ==
  {i \in 1..Len(rows) :
     LET value == toLowerCase(rows[i][column])
         at == IndexOf(value, "@")
         rest == SubSeq(value, at + 1, Len(value))
         next == IndexOf(rest, "@")
     IN  /\ at > 0
         /\ (IF next = 0 THEN rest ELSE SubSeq(rest, 1, next - 1))
              \in Range(commonDomains)}

\* C13 (as claimed): the skip warning is shown exactly on step 1, with an
\* email column selected and a positive count, and its count is the number
\* of rows whose lower-cased cell has the text after the first "@" equal to
\* one of the six common domains.
C13_CountsTextAfterFirstAt ==
  LET count == IF emailColumn = "" THEN 0
               ELSE Cardinality(RowsWithTextAfterFirstAt(emailColumn))
  IN  /\ SkipWarningShown <=> (step = 1 /\ emailColumn # "" /\ count > 0)
      /\ SkipWarningShown => SkipWarningCount = count

\* C13 (amended): the same, with the domain part being the text between
\* the first "@" and the next "@", or the end of the cell when there is no
\* second "@".
C13_CountsTextBetweenAts ==
  LET count == IF emailColumn = "" THEN 0
               ELSE Cardinality(RowsWithTextBetweenAts(emailColumn))
  IN  /\ SkipWarningShown <=> (step = 1 /\ emailColumn # "" /\ count > 0)
      /\ SkipWarningShown => SkipWarningCount = count

\* C13 witness: on step 1 with the column "email" chosen the warning
\* counts four rows, one of them a cell with two "@"
C13_Witness ==
  /\ step = 1
  /\ emailColumn = "email"
  /\ SkipWarningShown
  /\ SkipWarningCount = 4
  /\ \E i \in 1..Len(skippableEmails) :
       Len(split(skippableEmails[i].email, "@")) = 3

maxVisibleFields == 5

\* Math.max(0, selectedFields.length - maxVisibleFields), a 0-based index
startFieldIndex ==
  IF Len(selectedFields) - maxVisibleFields > 0
  THEN Len(selectedFields) - maxVisibleFields
  ELSE 0

\* the first maxVisibleFields entries of the selection
visibleFieldsFromTheStart ==
  SubSeq(selectedFields, 1,
         IF Len(selectedFields) < maxVisibleFields
         THEN Len(selectedFields) ELSE maxVisibleFields)

\* selectedFields.slice(startFieldIndex)
visibleFields ==
  SubSeq(selectedFields, startFieldIndex + 1, Len(selectedFields))

\* the preview header's columns for selected fields: step >= 2 && visibleFields.map
PreviewColumns == IF step >= 2 THEN visibleFields ELSE <<>>

\* the "+N more" header cell is rendered
MoreShown == step >= 2 /\ Len(selectedFields) > maxVisibleFields

\* the N of "+N more"
MoreCount == Len(selectedFields) - maxVisibleFields

\* C14: the preview has no field columns before step 2; from step 2 on it
\* shows exactly the last min(5, n) selected fields in selection order, n
\* being the number of selected fields, and "+N more" is shown exactly when
\* n > 5, with N = n - 5.
C14_PreviewShowsLastFive ==
  LET n == Len(selectedFields)
      k == IF n < 5 THEN n ELSE 5
  IN  /\ step < 2 => PreviewColumns = <<>> /\ ~MoreShown
      /\ step >= 2 =>
           /\ Len(PreviewColumns) = k
           /\ \A j \in 1..k : PreviewColumns[j] = selectedFields[n - k + j]
           /\ MoreShown <=> n > 5
           /\ MoreShown => MoreCount = n - 5

\* C14 witness: seven fields are selected on step 2, the preview shows the
\* third to the seventh and "+2 more"
C14_Witness ==
  /\ step = 2
  /\ Len(selectedFields) = 7
  /\ selectedFields[1] # selectedFields[6]
  /\ PreviewColumns[1] = selectedFields[3]
  /\ MoreShown
  /\ MoreCount = 2

(* Session "busy": the user keeps working while a generate-fields request *)
(* is outstanding: changes the email column, moves between the steps,     *)
(* toggles a catalog entry, submits the manual form, accepts and rejects  *)
(* suggestions of an earlier response, and starts the job.                *)

BusyPresets == {3}

BusyForms ==
  {[name |-> "Revenue", description |-> "", type |-> "string"],
   [name |-> "Revenue", description |-> "Annual revenue", type |-> "string"]}

BusyResponses == {SuccessResponse(<<GenDescriptor>>)}

NextBusy ==
  \/ DetectEmailColumn([columnName |-> "email", confidence |-> 51])
  \/ ClickChangeStep1
  \/ \E value \in Range(Columns) : SelectEmailStep1(value)
  \/ ClickNext
  \/ ClickBack
  \/ ClickChangeStep2
  \/ \E value \in Range(Columns) : SelectEmailStep2(value)
  \/ \E p \in BusyPresets : ClickPreset(p)
  \/ ~showNaturalLanguage /\ ToggleNaturalLanguage
  \/ TypePrompt(<<"c", "e", "o">>)
  \/ ClickGenerate
  \/ \E response \in BusyResponses : ResolveGenerate(1, response)
  \/ ~showManualAdd /\ ToggleManualAdd
  \/ \E edited \in BusyForms : EditCustomField(edited)
  \/ CustomCount < MaxCustomFields /\ ClickAddCustomField
  \/ CustomCount < MaxCustomFields /\ AcceptSuggestion(1)
  \/ RejectSuggestion(1)
  \/ ClickStartEnrichment

SpecBusy == Init /\ [][NextBusy]_vars

\* C15: while a generate-fields request is outstanding, each other control
\* is enabled exactly under its usual guard, and operating it takes effect
\* in that very step, the request staying outstanding: the preset toggle
\* adds or removes its field, Accept and Reject take the suggestion off the
\* list, the manual form is submitted, the email column is changed, Back
\* and Next change the step, Start Enrichment calls onStartEnrichment.
C15_OthersEnabledWhileGenerating ==
  Len(requests) > 0 =>
    /\ \A p \in 1..Len(PRESET_FIELDS) :
         LET name == PRESET_FIELDS[p].name
             usual == /\ step = 2
                      /\ Len(selectedFields) < 10 \/ HasName(selectedFields, name)
         IN  /\ ENABLED ClickPreset(p) => usual
             /\ usual =>
                  ENABLED ( /\ ClickPreset(p)
                            /\ HasName(selectedFields', name)
                                 # HasName(selectedFields, name)
                            /\ requests' = requests )
    /\ \A idx \in 1..Len(suggestedFields) :
         /\ ENABLED AcceptSuggestion(idx) => step = 2
         /\ ENABLED RejectSuggestion(idx) => step = 2
         /\ step = 2 =>
              /\ ENABLED ( /\ AcceptSuggestion(idx)
                           /\ Len(suggestedFields') = Len(suggestedFields) - 1
                           /\ Len(selectedFields) < 10
                                => HasName(selectedFields',
                                           suggestedFields[idx].name)
                           /\ requests' = requests )
              /\ ENABLED ( /\ RejectSuggestion(idx)
                           /\ Len(suggestedFields') = Len(suggestedFields) - 1
                           /\ requests' = requests )
    /\ LET usual == /\ step = 2 /\ showManualAdd
                    /\ customField.name # "" /\ customField.description # ""
       IN  /\ ENABLED ClickAddCustomField => usual
           /\ usual =>
                ENABLED ( /\ ClickAddCustomField
                          /\ ~showManualAdd'
                          /\ Len(selectedFields) < 10
                               => Len(selectedFields') = Len(selectedFields) + 1
                          /\ requests' = requests )
    /\ \A value \in Range(Columns) :
         LET usual1 == step = 1 /\ (emailColumn = "" \/ showEmailDropdown)
             usual2 == step = 2 /\ showEmailDropdown
         IN  /\ ENABLED SelectEmailStep1(value) => usual1
             /\ ENABLED SelectEmailStep2(value) => usual2
             /\ usual1 =>
                  ENABLED ( /\ SelectEmailStep1(value)
                            /\ emailColumn' = value
                            /\ requests' = requests )
             /\ usual2 =>
                  ENABLED ( /\ SelectEmailStep2(value)
                            /\ emailColumn' = value
                            /\ requests' = requests )
    /\ ENABLED ClickBack => step = 2
    /\ step = 2 => ENABLED (ClickBack /\ step' = 1 /\ requests' = requests)
    /\ ENABLED ClickNext => step = 1 /\ emailColumn # ""
    /\ (step = 1 /\ emailColumn # "")
         => ENABLED (ClickNext /\ step' = 2 /\ requests' = requests)
    /\ ENABLED ClickStartEnrichment => step = 2 /\ Len(selectedFields) > 0
    /\ (step = 2 /\ Len(selectedFields) > 0)
         => ENABLED ( /\ ClickStartEnrichment
                      /\ calls' = <<[emailColumn |-> emailColumn,
                                     fields |-> selectedFields]>>
                      /\ requests' = requests )

\* C15 witness: with the request still outstanding, a suggestion of the
\* earlier response has just been accepted and is in the selected list
C15_Witness ==
  /\ Len(requests) = 1 /\ isGenerating
  /\ lastOp.op = "accept"
  /\ HasName(selectedFields, lastOp.arg.name)
  /\ suggestedFields = <<>>

\* C16: in every reachable state every selected field and every suggested
\* field has one of the types string, number, boolean, array, whatever
\* type strings the successful responses reported.
C16_TypesWithinDomain ==
  /\ \A i \in 1..Len(selectedFields) :
       selectedFields[i].type \in {"string", "number", "boolean", "array"}
  /\ \A i \in 1..Len(suggestedFields) :
       suggestedFields[i].type \in {"string", "number", "boolean", "array"}

\* C17: a successful generate-fields response replaces the suggestion list
\* by the fields mapped from the response, one per descriptor and in the
\* response's order, whatever suggestions were listed before; it clears
\* the prompt, closes the natural-language panel and leaves the
\* selected-fields list as it was.
C17_SuccessReplacesSuggestions ==
  [][ (lastOp'.op = "resolve" /\ ~FailedResponse(lastOp'.arg))
      => /\ Len(suggestedFields') = Len(lastOp'.arg.fields)
         /\ \A i \in 1..Len(suggestedFields') :
              LET descriptor == lastOp'.arg.fields[i]
              IN  /\ suggestedFields'[i].displayName = descriptor.displayName
                  /\ suggestedFields'[i].description = descriptor.description
                  /\ suggestedFields'[i].type =
                       (IF descriptor.type \in {"text", "array"}
                        THEN "string" ELSE descriptor.type)
                  /\ suggestedFields'[i].required = FALSE
         /\ naturalLanguageInput' = <<>>
         /\ showNaturalLanguage' = FALSE
         /\ selectedFields' = selectedFields ]_vars

\* C17 witness: a response with one descriptor has arrived while a custom
\* field was selected; one suggestion is listed, the prompt is empty and
\* the panel closed
C17_Witness ==
  /\ lastOp.op = "resolve" /\ ~FailedResponse(lastOp.arg)
  /\ Len(lastOp.arg.fields) = 1
  /\ Len(suggestedFields) = 1
  /\ naturalLanguageInput = <<>> /\ ~showNaturalLanguage
  /\ CustomCount = 1

\* the names of the eight catalog entries
PresetNames == {PRESET_FIELDS[p].name : p \in 1..Len(PRESET_FIELDS)}

\* the number of selected fields whose name is no catalog name
NonPresetCount(fields) ==
  Cardinality({i \in 1..Len(fields) : fields[i].name \notin PresetNames})

\* C18: a field leaves the selected-fields list only in a step that toggles
\* the preset button of that field's name; so a selected field whose name
\* is none of the eight preset names stays selected in every step, and the
\* number of such fields never decreases.
C18_OnlyPresetToggleRemoves ==
  [][ /\ \A i \in 1..Len(selectedFields) :
           selectedFields[i] \notin Range(selectedFields')
             => /\ lastOp'.op = "preset"
                /\ lastOp'.arg = selectedFields[i].name
      /\ \A i \in 1..Len(selectedFields) :
           selectedFields[i].name \notin PresetNames
             => selectedFields[i] \in Range(selectedFields')
      /\ NonPresetCount(selectedFields') >= NonPresetCount(selectedFields)
    ]_vars

\* C18 witness: the preset "industry" has just been toggled off while two
\* custom fields were selected, and both are still selected
C18_Witness ==
  /\ lastOp.op = "preset" /\ lastOp.arg = "industry"
  /\ ~HasName(selectedFields, "industry")
  /\ NonPresetCount(selectedFields) = 2
  /\ HasName(selectedFields, "revenue")
  /\ HasName(selectedFields, "industry1")

\* C19: choosing a column in the "Change" email dropdown, on step 1 as on
\* step 2, sets the email column to the chosen value and hides the
\* dropdown again, and leaves the step, the selected fields and the
\* suggestions unchanged.
C19_ChoiceHidesDropdown ==
  [][ ( /\ lastOp'.op \in {"selectStep1", "selectStep2"}
        /\ emailColumn # "" /\ showEmailDropdown )
      => /\ emailColumn' = lastOp'.arg
         /\ ~showEmailDropdown'
         /\ UNCHANGED <<step, selectedFields, suggestedFields>> ]_vars

====
